---- MODULE Spec2Model ----
(***************************************************************************)
(* A model of the BeeBot MDP planner (a2/solution.py): the transition      *)
(* model, the state-space explorer, value iteration and policy iteration.  *)
(* Python floats are IEEE-754 binary64 numbers; they are modelled as       *)
(* sign * mantissa * 2^exponent with a mantissa of at most 53 bits, every  *)
(* operation rounding its exact result to nearest, ties to even.           *)
(***************************************************************************)
EXTENDS Integers, Sequences, FiniteSets, TLC

(***************************************************************************)
(* Natural numbers of any size: little-endian sequences of limbs.          *)
(***************************************************************************)
Base == 2^14

\* the number of bits of n, for 0 <= n < 2^30
IntBitLen(n) == CHOOSE k \in 0..30 : n < 2^k /\ (k = 0 \/ n >= 2^(k - 1))

LimbBits == IntBitLen(Base) - 1

Limb(a, i) == IF i \in 1..Len(a) THEN a[i] ELSE 0

\* the index of the highest limb that is not zero, 0 if there is none
TopLimb(a) ==
    IF \A i \in 1..Len(a) : a[i] = 0 THEN 0
    ELSE CHOOSE n \in 1..Len(a) : a[n] # 0 /\ \A k \in (n + 1)..Len(a) : a[k] = 0

BNorm(a) == SubSeq(a, 1, TopLimb(a))

\* the carry into limb i of a + b: some lower limb overflows and every limb
\* between it and i passes the carry on
AddCarry(a, b, i) ==
    \E j \in 1..(i - 1) :
        /\ Limb(a, j) + Limb(b, j) >= Base
        /\ \A k \in (j + 1)..(i - 1) : Limb(a, k) + Limb(b, k) = Base - 1

BAdd(a, b) ==
    IF a = <<>> THEN b
    ELSE IF b = <<>> THEN a
    ELSE BNorm([i \in 1..((IF Len(a) > Len(b) THEN Len(a) ELSE Len(b)) + 1) |->
            (Limb(a, i) + Limb(b, i) + (IF AddCarry(a, b, i) THEN 1 ELSE 0)) % Base])

\* the borrow from limb i of a - b
SubBorrow(a, b, i) ==
    \E j \in 1..(i - 1) :
        /\ Limb(a, j) < Limb(b, j)
        /\ \A k \in (j + 1)..(i - 1) : Limb(a, k) = Limb(b, k)

\* a - b for a >= b
BSub(a, b) ==
    IF b = <<>> THEN a
    ELSE BNorm([i \in 1..Len(a) |->
            (Limb(a, i) - Limb(b, i) - (IF SubBorrow(a, b, i) THEN 1 ELSE 0)) % Base])

\* the highest limb in which a and b differ, for a # b of one length
TopDiff(a, b) ==
    CHOOSE i \in 1..Len(a) : a[i] # b[i] /\ \A k \in (i + 1)..Len(a) : a[k] = b[k]

\* -1, 0, 1 as a < b, a = b, a > b
BCmp(a, b) ==
    IF Len(a) < Len(b) THEN -1
    ELSE IF Len(a) > Len(b) THEN 1
    ELSE IF a = b THEN 0
    ELSE IF a[TopDiff(a, b)] < b[TopDiff(a, b)] THEN -1
    ELSE 1

RECURSIVE MulColumn(_, _, _, _)
\* the sum of the products a[j] * b[k + 1 - j], j >= i
MulColumn(a, b, k, i) ==
    IF i > Len(a) THEN 0
    ELSE Limb(a, i) * Limb(b, k + 1 - i) + MulColumn(a, b, k, i + 1)

\* a * b by columns, each column sum split into three limbs; the sums stay
\* integers of 31 bits while one factor has at most four limbs
BMul(a, b) ==
    IF a = <<>> \/ b = <<>> THEN <<>>
    ELSE BAdd(BAdd([k \in 1..(Len(a) + Len(b)) |-> MulColumn(a, b, k, 1) % Base] \o <<>>,
                   <<0>> \o [k \in 1..(Len(a) + Len(b)) |->
                                (MulColumn(a, b, k, 1) \div Base) % Base]),
              <<0, 0>> \o [k \in 1..(Len(a) + Len(b)) |->
                              MulColumn(a, b, k, 1) \div (Base * Base)])

Zeros(n) == [i \in 1..n |-> 0]

\* a * 2^r for r < LimbBits: the low bits of each limb stay, its high bits
\* go to the limb above
BShlBits(a, r) ==
    BNorm([i \in 1..(Len(a) + 1) |->
            ((Limb(a, i) * 2^r) % Base) + ((Limb(a, i - 1) * 2^r) \div Base)])

\* a * 2^k
BShl(a, k) ==
    IF a = <<>> \/ k = 0 THEN a
    ELSE Zeros(k \div LimbBits) \o BShlBits(a, k % LimbBits)

\* floor(a / 2^k)
BShr(a, k) ==
    LET q == k \div LimbBits
        r == k % LimbBits
        n == Len(a) - q
    IN  IF n <= 0 THEN <<>>
        ELSE BNorm([i \in 1..n |->
                     (a[q + i] \div 2^r)
                     + (IF q + i < Len(a)
                        THEN (a[q + i + 1] % 2^r) * 2^(LimbBits - r)
                        ELSE 0)])

\* a mod 2^k
BLow(a, k) ==
    LET q == k \div LimbBits
        r == k % LimbBits
    IN  IF Len(a) <= q THEN a
        ELSE BNorm(SubSeq(a, 1, q) \o <<a[q + 1] % 2^r>>)

BBitLen(a) == IF a = <<>> THEN 0
              ELSE LimbBits * (Len(a) - 1) + IntBitLen(a[Len(a)])

\* the number of zero bits below the lowest one bit of n, for 0 < n < 2^30
IntTrailingZeros(n) == CHOOSE k \in 0..29 : n % 2^k = 0 /\ n % 2^(k + 1) # 0

\* the index of the lowest limb that is not zero, for a # 0
LowLimb(a) == CHOOSE i \in 1..Len(a) : a[i] # 0 /\ \A k \in 1..(i - 1) : a[k] = 0

\* for a # 0
BTrailingZeros(a) == LimbBits * (LowLimb(a) - 1) + IntTrailingZeros(a[LowLimb(a)])

\* for 0 <= n < 2^31
BFromInt(n) == BNorm(<<n % Base, (n \div Base) % Base, n \div (Base * Base)>>)

RECURSIVE BToInt(_)
BToInt(a) == IF a = <<>> THEN 0 ELSE Head(a) + Base * BToInt(Tail(a))

(***************************************************************************)
(* binary64 numbers: [s |-> 1 or -1, m |-> mantissa, e |-> exponent],      *)
(* the number s * m * 2^e, kept with m odd (or m = 0, s = 1, e = 0) so     *)
(* that equal numbers are equal records.  The exponent range (overflow to  *)
(* infinity, subnormals) is never approached by the planner's numbers and  *)
(* is not modelled.                                                        *)
(***************************************************************************)
MantBits == 52 + 1

FZero == [s |-> 1, m |-> <<>>, e |-> 0]

FNorm(s, m, e) ==
    IF m = <<>> THEN FZero
    ELSE LET z == BTrailingZeros(m)
         IN  [s |-> s, m |-> BShr(m, z), e |-> e + z]

\* round s * m * 2^e to nearest, ties to even
FRound(s, m, e) ==
    LET len == BBitLen(m)
    IN  IF m = <<>> THEN FZero
        ELSE IF len <= MantBits THEN FNorm(s, m, e)
        ELSE LET k    == len - MantBits
                 q    == BShr(m, k)
                 r    == BLow(m, k)
                 half == BShl(<<1>>, k - 1)
                 c    == BCmp(r, half)
                 up   == c > 0 \/ (c = 0 /\ Head(q) % 2 = 1)
             IN  FNorm(s, IF up THEN BAdd(q, <<1>>) ELSE q, e + k)

FromInt(n) == IF n < 0 THEN FNorm(-1, BFromInt(-n), 0) ELSE FNorm(1, BFromInt(n), 0)

\* n / 2^k, exactly
Dyadic(n, k) == IF n < 0 THEN FNorm(-1, BFromInt(-n), -k) ELSE FNorm(1, BFromInt(n), -k)

FNeg(x) == IF x.m = <<>> THEN x ELSE [x EXCEPT !.s = -x.s]

\* the exact sum of two numbers, as (sign, mantissa, exponent)
ExactAdd(x, y) ==
    LET e  == IF x.e < y.e THEN x.e ELSE y.e
        mx == BShl(x.m, x.e - e)
        my == BShl(y.m, y.e - e)
        c  == BCmp(mx, my)
    IN  IF x.m = <<>> THEN y
        ELSE IF y.m = <<>> THEN x
        ELSE IF x.s = y.s THEN [s |-> x.s, m |-> BAdd(mx, my), e |-> e]
        ELSE IF c = 0 THEN FZero
        ELSE IF c > 0 THEN [s |-> x.s, m |-> BSub(mx, my), e |-> e]
        ELSE [s |-> y.s, m |-> BSub(my, mx), e |-> e]

Rounded(t) == IF t.m = <<>> THEN FZero ELSE FRound(t.s, t.m, t.e)

FAdd(x, y) ==
    IF x.m = <<>> THEN y
    ELSE IF y.m = <<>> THEN x
    ELSE Rounded(ExactAdd(x, y))

FSub(x, y) == FAdd(x, FNeg(y))

FMul(x, y) ==
    IF x.m = <<>> \/ y.m = <<>> THEN FZero
    ELSE FRound(x.s * y.s, BMul(x.m, y.m), x.e + y.e)

\* -1, 0, 1 as x < y, x = y, x > y
FCmp(x, y) ==
    LET d == ExactAdd(x, FNeg(y))
    IN  IF d.m = <<>> THEN 0 ELSE d.s

FLess(x, y) == FCmp(x, y) < 0

FAbs(x) == [x EXCEPT !.s = 1]

\* the integer part, toward zero (a cast of a float to int64)
FTrunc(x) ==
    IF x.e >= 0 THEN x.s * BToInt(BShl(x.m, x.e))
    ELSE x.s * BToInt(BShr(x.m, -x.e))

\* the binary64 number (h * 2^28 + l) * 2^e, for a mantissa too wide for one integer
Binary64(h, l, e) == FNorm(1, BAdd(BShl(BFromInt(h), 28), BFromInt(l)), e)

\* x <= y, as real numbers
FLeq(x, y) == FCmp(x, y) <= 0

\* a list, array or table whose entries are computed once, when it is built
Stored(f) == f @@ <<>>

\* TRUE.  TLC computes an operator's argument where it is first used; a loop
\* that tests Evaluated(acc) computes its accumulator before it goes on,
\* as the program does
Evaluated(x) == x = x

(***************************************************************************)
(* Actions (a2/constants.py).                                              *)
(***************************************************************************)
FORWARD == 0
REVERSE == 1
SPIN_LEFT == 2
SPIN_RIGHT == 3
BEE_ACTIONS == <<FORWARD, REVERSE, SPIN_LEFT, SPIN_RIGHT>>

Actions == {BEE_ACTIONS[i] : i \in 1..Len(BEE_ACTIONS)}

\* BEE_ACTIONS.index(action): 0-based
ActionIndex(action) == (CHOOSE i \in 1..Len(BEE_ACTIONS) : BEE_ACTIONS[i] = action) - 1

(***************************************************************************)
(* The Environment the Solver is given.  environment.py and state.py are   *)
(* not among the planner's sources; the adapter is modelled from its       *)
(* contract: a deterministic step function, a terminal test, an initial    *)
(* state and the per-action stochastic parameters.  The world is a bee on  *)
(* a corridor of `width` cells, turning through NumOrient orientations:    *)
(* orientation 0 faces up the corridor, the opposite one faces down it,    *)
(* the others face its walls.  A state is [pos, ori]; the last cell is the *)
(* target.                                                                 *)
(***************************************************************************)
NumOrient == 6
MaxWidth == 3

Orientations == 0..(NumOrient - 1)

\* the displacement of a forward move with orientation ori; 0 into a wall
Facing(ori) ==
    IF ori = 0 THEN 1
    ELSE IF ori = NumOrient \div 2 THEN -1
    ELSE 0

\* the cell a FORWARD or REVERSE move leads to
Ahead(state, move) ==
    state.pos + (IF move = FORWARD THEN Facing(state.ori) ELSE -Facing(state.ori))

is_solved(env, state) == state.pos = env.target

get_init_state(env) == env.init

\* (reward, next_state) of one primitive move: deterministic
apply_dynamics(env, state, move) ==
    IF move = SPIN_LEFT
    THEN [reward |-> FNeg(env.cost[move]),
          next_state |-> [state EXCEPT !.ori = (state.ori + NumOrient - 1) % NumOrient]]
    ELSE IF move = SPIN_RIGHT
    THEN [reward |-> FNeg(env.cost[move]),
          next_state |-> [state EXCEPT !.ori = (state.ori + 1) % NumOrient]]
    ELSE IF Ahead(state, move) = state.pos \/ Ahead(state, move) < 0
            \/ Ahead(state, move) >= env.width
    THEN [reward |-> FNeg(env.collision_penalty), next_state |-> state]
    ELSE [reward |-> FNeg(env.cost[move]),
          next_state |-> [state EXCEPT !.pos = Ahead(state, move)]]

(***************************************************************************)
(* Solver.get_transition_outcomes                                          *)
(***************************************************************************)
\* the drift branches, in the order of the loop: (probability, drift move or 0)
DriftBranches(env, action) ==
    << [prob  |-> FSub(FSub(FromInt(1), env.drift_cw_probs[action]),
                       env.drift_ccw_probs[action]),
        drift |-> 0],
       [prob |-> env.drift_cw_probs[action], drift |-> SPIN_RIGHT],
       [prob |-> env.drift_ccw_probs[action], drift |-> SPIN_LEFT] >>

\* movements = [drift] if drift else []; then the action, once or twice
Movements(drift, action, double_move) ==
    (IF drift = 0 THEN <<>> ELSE <<drift>>)
    \o <<action>>
    \o (IF double_move THEN <<action>> ELSE <<>>)

RECURSIVE ApplyMoves(_, _, _, _)
RECURSIVE AfterMove(_, _, _, _, _)
\* the inner loop: apply the moves in turn; cur is (next_state, total_reward) so far ...
ApplyMoves(env, state, cur, moves) ==
    IF moves = <<>> THEN cur
    ELSE AfterMove(env, state, cur.reward,
                   apply_dynamics(env, cur.next_state, Head(moves)), Tail(moves))

\* ... add the reward, and break if the move gave back the state the sequence began in
AfterMove(env, state, total_reward, r, rest) ==
    IF r.next_state = state
    THEN [next_state |-> r.next_state, reward |-> FAdd(total_reward, r.reward)]
    ELSE ApplyMoves(env, state,
                    [next_state |-> r.next_state, reward |-> FAdd(total_reward, r.reward)],
                    rest)

\* MoveProb with the single move weighted like the double one: the two weights
\* of a drift branch no longer add up to its probability
MoveProbUncomplemented(env, action, prob, double_move) ==
    FMul(prob, env.double_move_probs[action])

\* move_prob = prob * (double_move_probs[action] if double_move else 1 - ...)
MoveProb(env, action, prob, double_move) ==
    FMul(prob, IF double_move THEN env.double_move_probs[action]
               ELSE FSub(FromInt(1), env.double_move_probs[action]))

MkOutcome(move_prob, res) ==
    [prob |-> move_prob, next_state |-> res.next_state, reward |-> res.reward]

Outcome(env, state, action, branch, double_move) ==
    MkOutcome(MoveProb(env, action, branch.prob, double_move),
              ApplyMoves(env, state, [next_state |-> state, reward |-> FZero],
                         Movements(branch.drift, action, double_move)))

\* the two nested loops: each drift branch, single then double
BranchOutcomes(env, state, action, br) ==
    Stored([k \in 1..(2 * Len(br)) |->
               Outcome(env, state, action, br[(k + 1) \div 2], k % 2 = 0)])

\* get_transition_outcomes without its test for a solved state
get_transition_outcomes_unabsorbed(env, state, action) ==
    BranchOutcomes(env, state, action, DriftBranches(env, action))

get_transition_outcomes(env, state, action) ==
    IF is_solved(env, state)
    THEN << [prob |-> FromInt(1), next_state |-> state, reward |-> FZero] >>
    ELSE BranchOutcomes(env, state, action, DriftBranches(env, action))

\* get_transition_outcomes is a function of the environment, the state and
\* the action alone; the planner's runs keep its results for the environment
\* they are built on in a table, and the planner's calls read the table
VARIABLE transitions

TransitionTable(env) ==
    Stored([state \in [pos : 0..(env.width - 1), ori : Orientations] |->
               Stored([action \in Actions |-> get_transition_outcomes(env, state, action)])])

\* self.get_transition_outcomes(state, action), as the planner calls it
transition_outcomes(state, action) == transitions[state][action]

(***************************************************************************)
(* The dictionaries state_values and policy: a Python dict keeps its keys  *)
(* in insertion order, which is the order vi_iteration and pi_initialise   *)
(* walk them in.  A dict pair is [values, policy, keys].                   *)
(***************************************************************************)
\* state_values = {initial_state: 0}; policy = {initial_state: FORWARD}
SeedDicts(initial_state) ==
    [values |-> (initial_state :> FZero), policy |-> (initial_state :> FORWARD),
     keys |-> <<initial_state>>]

OutcomeStates(o) == [k \in 1..Len(o) |-> o[k].next_state]

\* the next_state of every outcome of every action, in loop order
RECURSIVE NextStates(_, _, _)
NextStates(env, state, i) ==
    IF i > Len(BEE_ACTIONS) THEN <<>>
    ELSE OutcomeStates(transition_outcomes(state, BEE_ACTIONS[i]))
         \o NextStates(env, state, i + 1)

\* the indices of `found` whose state is not a key of state_values when the
\* loop over the outcomes reaches it: not a key before, and not met earlier
FreshAt(d, found) ==
    {k \in 1..Len(found) :
        /\ found[k] \notin DOMAIN d.values
        /\ \A j \in 1..(k - 1) : found[j] # found[k]}

\* the states at the indices P, in the order of `found`
Picked(found, P) ==
    [n \in 1..Cardinality(P) |->
        found[CHOOSE k \in P : Cardinality({j \in P : j <= k}) = n]]

\* state_values[s] = 0, policy[s] = FORWARD and stack.append(s), for each s of fresh
Recorded(d, stk, fresh) ==
    [d |-> [values |-> d.values @@ [s \in {fresh[n] : n \in 1..Len(fresh)} |-> FZero],
            policy |-> d.policy @@ [s \in {fresh[n] : n \in 1..Len(fresh)} |-> FORWARD],
            keys   |-> d.keys \o fresh],
     stack |-> stk \o fresh]

\* record and push every state of `found` that is not yet a key of state_values
Discover(d, stk, found) ==
    Recorded(d, stk, Picked(found, FreshAt(d, found)) \o <<>>)

Expanded(r, explored) == [d |-> r.d, stack |-> r.stack, explored |-> explored]

\* one pass of the body of the while loop of _explore_states_iterative
ExploreBody(env, x) ==
    IF x.stack[Len(x.stack)] \in x.explored
    THEN [x EXCEPT !.stack = SubSeq(x.stack, 1, Len(x.stack) - 1)]
    ELSE Expanded(Discover(x.d, SubSeq(x.stack, 1, Len(x.stack) - 1),
                           NextStates(env, x.stack[Len(x.stack)], 1)),
                  x.explored \cup {x.stack[Len(x.stack)]})

\* the loop condition of _explore_states_iterative
ExploreGoesOn(x, cap) == x.stack # <<>> /\ Len(x.d.keys) < cap

RECURSIVE ExploreLoop(_, _, _)
ExploreLoop(env, x, cap) ==
    IF ExploreGoesOn(x, cap) THEN ExploreLoop(env, ExploreBody(env, x), cap)
    ELSE x

MaxStatesDefault == 10000

\* vi_initialise: the dictionaries it leaves
vi_initialise(env) ==
    ExploreLoop(env, [d |-> SeedDicts(get_init_state(env)),
                      stack |-> <<get_init_state(env)>>, explored |-> {}],
                MaxStatesDefault).d

(***************************************************************************)
(* Value iteration                                                         *)
(***************************************************************************)
\* state_values.get(state, 0)
ValueOf(values, state) == IF state \in DOMAIN values THEN values[state] ELSE FZero

RECURSIVE SumFrom(_, _, _)
\* sum(): the terms added left to right onto `acc`
SumFrom(acc, terms, i) ==
    IF Evaluated(acc) /\ i <= Len(terms) THEN SumFrom(FAdd(acc, terms[i]), terms, i + 1)
    ELSE acc

\* prob * (reward + gamma * state_values.get(next_state, 0)), per outcome
QTerms(gamma, values, o) ==
    Stored([k \in 1..Len(o) |->
               FMul(o[k].prob,
                    FAdd(o[k].reward, FMul(gamma, ValueOf(values, o[k].next_state))))])

compute_q_value(env, values, state, action) ==
    SumFrom(FZero, QTerms(env.gamma, values, transition_outcomes(state, action)), 1)

RECURSIVE BestFrom(_, _, _, _, _)
RECURSIVE BestWith(_, _, _, _, _, _)
\* the loop over BEE_ACTIONS of vi_iteration ...
BestFrom(env, values, state, best, i) ==
    IF i > Len(BEE_ACTIONS) THEN best
    ELSE BestWith(env, values, state, best, i,
                  compute_q_value(env, values, state, BEE_ACTIONS[i]))

\* ... where a strictly greater value replaces the best so far
BestWith(env, values, state, best, i, value) ==
    IF Evaluated(value) /\ (best.minus_inf \/ FLess(best.value, value))
    THEN BestFrom(env, values, state,
                  [value |-> value, action |-> BEE_ACTIONS[i], minus_inf |-> FALSE], i + 1)
    ELSE BestFrom(env, values, state, best, i + 1)

\* best_value = -inf, best_action = None, then the loop
Best(env, values, state) ==
    BestFrom(env, values, state,
             [value |-> FZero, action |-> FORWARD, minus_inf |-> TRUE], 1)

compute_value(env, values, state) ==
    IF is_solved(env, state) THEN FZero ELSE Best(env, values, state).value

vi_is_converged(env, d) ==
    \A state \in DOMAIN d.values :
        FLess(FAbs(FSub(d.values[state], compute_value(env, d.values, state))),
              env.epsilon)

SetBest(d, state, b) ==
    [d EXCEPT !.values[state] = b.value, !.policy[state] = b.action]

\* the body of the loop of vi_iteration, for one state
ViUpdate(env, d, state) ==
    IF is_solved(env, state) THEN [d EXCEPT !.values[state] = FZero]
    ELSE SetBest(d, state, Best(env, d.values, state))

RECURSIVE ViSweep(_, _, _, _)
\* vi_iteration: the states keys[lo..hi] in dict order, each seeing the values
\* already updated; the first half of the range, then the second
ViSweep(env, d, lo, hi) ==
    IF Evaluated(d) /\ lo < hi
    THEN ViSweep(env, ViSweep(env, d, lo, (lo + hi) \div 2), (lo + hi) \div 2 + 1, hi)
    ELSE IF lo = hi THEN ViUpdate(env, d, d.keys[lo])
    ELSE d

vi_iteration(env, d) == ViSweep(env, d, 1, Len(d.keys))

(***************************************************************************)
(* Policy iteration.  value_array is built by np.array from the integer    *)
(* zeros the explorer seeds, so it is an int64 array: a float assigned     *)
(* into it is cast, its fraction dropped toward zero.  policy_array holds  *)
(* 0-based indices into BEE_ACTIONS.                                       *)
(***************************************************************************)
\* state_to_index.get(state, default), indices from 1
IndexOf(sl, state, default) ==
    IF \E i \in 1..Len(sl) : sl[i] = state
    THEN CHOOSE i \in 1..Len(sl) : sl[i] = state
    ELSE default

\* the arrays pi_initialise builds from the dictionaries vi_initialise left
pi_arrays(d) ==
    [state_list   |-> d.keys,
     value_array  |-> Stored([i \in 1..Len(d.keys) |-> FTrunc(d.values[d.keys[i]])]),
     policy_array |-> Stored([i \in 1..Len(d.keys) |-> ActionIndex(d.policy[d.keys[i]])])]

RECURSIVE RowFrom(_, _, _, _, _)
\* row i of T and R[i]: each outcome's probability added at its next state's column
\* (row i itself for a next state outside state_list)
RowFrom(sl, i, o, k, acc) ==
    IF Evaluated(acc) /\ k <= Len(o)
    THEN RowFrom(sl, i, o, k + 1,
                 [T |-> [acc.T EXCEPT ![IndexOf(sl, o[k].next_state, i)]
                                         = FAdd(@, o[k].prob)],
                  R |-> FAdd(acc.R, FMul(o[k].prob, o[k].reward))])
    ELSE acc

MatrixOfRows(rows) ==
    [T |-> Stored([i \in 1..Len(rows) |-> rows[i].T]),
     R |-> Stored([i \in 1..Len(rows) |-> rows[i].R])]

\* _get_transition_matrix(action), uncached: [T, R]
BuildMatrix(env, sl, action) ==
    MatrixOfRows(Stored([i \in 1..Len(sl) |->
                    RowFrom(sl, i, transition_outcomes(sl[i], action), 1,
                            [T |-> [j \in 1..Len(sl) |-> FZero], R |-> FZero])]))

\* _get_transition_matrix(action) through its lru_cache
get_transition_matrix(cache, env, sl, action) ==
    IF action \in DOMAIN cache THEN cache[action] ELSE BuildMatrix(env, sl, action)

\* row[j] * value[j], the int64 entry converted to a float
Products(row, value) ==
    Stored([j \in 1..Len(row) |-> FMul(row[j], FromInt(value[j]))])

RECURSIVE SumRange(_, _, _)
\* the sum of terms[lo..hi], by halves
SumRange(terms, lo, hi) ==
    IF Evaluated(terms) /\ lo < hi
    THEN FAdd(SumRange(terms, lo, (lo + hi) \div 2),
              SumRange(terms, (lo + hi) \div 2 + 1, hi))
    ELSE IF lo = hi THEN terms[lo]
    ELSE FZero

\* row @ value.  numpy leaves the order of the additions to its kernel; the
\* entries of value are integers and those of row are dyadic, so every
\* partial sum is exact and the order cannot matter
Dot(row, value) == SumRange(Products(row, value), 1, Len(row))

\* (R + gamma * (T @ value))[i]
Lookahead(M, gamma, value, i) ==
    FAdd(M.R[i], FMul(gamma, Dot(M.T[i], value)))

\* a float assigned into the int64 value_array
StoreValue(x) == FTrunc(x)

\* value_array[action_indices] = new; v is [value, rhs]: the array, and the
\* number last computed for each entry
Assign(v, rows, new) ==
    [value |-> Stored([i \in 1..Len(v.value) |->
                          IF i \in rows THEN StoreValue(new[i]) ELSE v.value[i]]),
     rhs   |-> Stored([i \in 1..Len(v.value) |->
                          IF i \in rows THEN new[i] ELSE v.rhs[i]])]

EvalAction(M, gamma, v, rows) ==
    IF rows = {} THEN v
    ELSE Assign(v, rows, Stored([i \in rows |-> Lookahead(M, gamma, v.value, i)]))

RECURSIVE EvalActions(_, _, _, _, _)
\* one sweep of pi_policy_evaluation: the loop over BEE_ACTIONS
EvalActions(Ms, gamma, policy_arr, v, a) ==
    IF Evaluated(v) /\ a <= Len(BEE_ACTIONS)
    THEN EvalActions(Ms, gamma, policy_arr,
                     EvalAction(Ms[BEE_ACTIONS[a]], gamma, v,
                                {i \in 1..Len(policy_arr) :
                                    policy_arr[i] = ActionIndex(BEE_ACTIONS[a])}),
                     a + 1)
    ELSE v

Abs(n) == IF n < 0 THEN -n ELSE n

\* np.max(np.abs(old - new))
MaxAbsDiff(old, new) ==
    CHOOSE m \in {Abs(old[i] - new[i]) : i \in 1..Len(old)} :
        \A i \in 1..Len(old) : Abs(old[i] - new[i]) <= m

EvalMaxIterations == 100

RECURSIVE EvalSweeps(_, _, _, _, _, _)
RECURSIVE EvalCheck(_, _, _, _, _, _, _)
\* pi_policy_evaluation: up to n more sweeps ...
EvalSweeps(Ms, gamma, epsilon, policy_arr, v, n) ==
    IF n = 0 THEN v
    ELSE EvalCheck(Ms, gamma, epsilon, policy_arr, v,
                   EvalActions(Ms, gamma, policy_arr, v, 1), n)

\* ... stopping after one that changed no entry by epsilon or more
EvalCheck(Ms, gamma, epsilon, policy_arr, old, v, n) ==
    IF Evaluated(v) /\ FLess(FromInt(MaxAbsDiff(old.value, v.value)), epsilon) THEN v
    ELSE EvalSweeps(Ms, gamma, epsilon, policy_arr, v, n - 1)

pi_policy_evaluation(Ms, gamma, epsilon, policy_arr, v) ==
    EvalSweeps(Ms, gamma, epsilon, policy_arr, v, EvalMaxIterations)

\* np.where(Q > value_array, BEE_ACTIONS.index(action), policy_array)
Where(M, gamma, value, policy_arr, index) ==
    Stored([i \in 1..Len(policy_arr) |->
               IF FLess(FromInt(value[i]), Lookahead(M, gamma, value, i))
               THEN index ELSE policy_arr[i]])

RECURSIVE ImproveFrom(_, _, _, _, _)
\* pi_policy_improvement: the loop over BEE_ACTIONS
ImproveFrom(Ms, gamma, value, policy_arr, a) ==
    IF Evaluated(policy_arr) /\ a <= Len(BEE_ACTIONS)
    THEN ImproveFrom(Ms, gamma, value,
                     Where(Ms[BEE_ACTIONS[a]], gamma, value, policy_arr,
                           ActionIndex(BEE_ACTIONS[a])),
                     a + 1)
    ELSE policy_arr

pi_policy_improvement(Ms, gamma, value, policy_arr) ==
    ImproveFrom(Ms, gamma, value, policy_arr, 1)

\* the loop at the end of pi_iteration: the arrays copied into the dictionaries
SyncDicts(sl, d, value, policy_arr) ==
    [values |-> [s \in DOMAIN d.values |->
                   IF IndexOf(sl, s, 0) # 0 THEN FromInt(value[IndexOf(sl, s, 0)])
                   ELSE d.values[s]],
     policy |-> [s \in DOMAIN d.policy |->
                   IF IndexOf(sl, s, 0) # 0 THEN BEE_ACTIONS[policy_arr[IndexOf(sl, s, 0)] + 1]
                   ELSE d.policy[s]],
     keys   |-> d.keys]

\* the lru_cache once every action's matrices have been asked for
Matrices(cache, env, sl) ==
    Stored([a \in Actions |-> get_transition_matrix(cache, env, sl, a)])

\* value_array as pi_policy_evaluation finds it: each entry is the number it holds
Held(value) == [value |-> value, rhs |-> Stored([i \in 1..Len(value) |-> FromInt(value[i])])]

(***************************************************************************)
(* Environments.  Costs, the collision penalty, gamma, epsilon and the     *)
(* planner's probabilities are dyadic, so that binary64 arithmetic on      *)
(* them is exact and the order in which sum() or a matrix product adds     *)
(* its terms cannot matter.  The transition model alone is also run with   *)
(* probabilities such as 0.05 that binary64 only approximates.             *)
(***************************************************************************)
States == [pos : 0..(MaxWidth - 1), ori : Orientations]

Uniform(x) == [a \in Actions |-> x]

MkEnv(width, ori, gamma, epsilon, cw, ccw, dbl) ==
    [width |-> width, target |-> width - 1, init |-> [pos |-> 0, ori |-> ori],
     gamma |-> gamma, epsilon |-> epsilon,
     cost |-> (FORWARD :> FromInt(1)) @@ (REVERSE :> FromInt(1))
              @@ (SPIN_LEFT :> Dyadic(1, 3)) @@ (SPIN_RIGHT :> Dyadic(5, 5)),
     collision_penalty |-> FromInt(2),
     drift_cw_probs |-> Uniform(cw), drift_ccw_probs |-> Uniform(ccw),
     double_move_probs |-> Uniform(dbl)]

\* 0.05, 0.1 and 0.7 as binary64
Dot05 == Binary64(13421772, 214748365, -56)
Dot1  == Binary64(13421772, 214748365, -55)
Dot7  == Binary64(11744051, 53687091, -52)

ProbValues == {FZero, Dyadic(1, 2), Dyadic(1, 1), FromInt(1), Dot05, Dot1, Dot7}

\* drift_cw + drift_ccw <= 1, as real numbers
DriftOk(cw, ccw) == ExactAdd(ExactAdd(cw, ccw), FromInt(-1)).s = -1
                    \/ ExactAdd(ExactAdd(cw, ccw), FromInt(-1)).m = <<>>

TransitionEnvs ==
    {MkEnv(MaxWidth, 0, Dyadic(1, 1), Dyadic(1, 2), t[1], t[2], t[3]) :
        t \in {u \in ProbValues \X ProbValues \X ProbValues : DriftOk(u[1], u[2])}}

\* (drift_cw, drift_ccw, double_move) the planner is run with
PlanProbs ==
    { <<FZero, FZero, FZero>>,
      <<Dyadic(1, 2), FZero, Dyadic(1, 1)>>,
      <<Dyadic(1, 2), Dyadic(1, 2), Dyadic(1, 2)>> }

PlanEnvs ==
    {MkEnv(w, o, Dyadic(1, 1), eps, t[1], t[2], t[3]) :
        w \in 2..MaxWidth, o \in {0, 1}, eps \in {Dyadic(1, 2), Dyadic(1, 5)},
        t \in PlanProbs}

VARIABLES env,            \* the Environment the Solver was built on
          \* (transitions, declared above: its transition table)
          pc,             \* where the caller is
          q_state, q_action, outcomes,   \* a call of get_transition_outcomes and its result
          state_values, policy, keys,    \* the dictionaries, and their key order
          policy_stable,
          state_list, value_array, policy_array,
          tcache,         \* the lru_cache of _get_transition_matrix: action -> [T, R]
          stack, explored, max_states, warned,   \* the explorer's locals; the warning printed
          iterations,     \* the loop counter of vi_plan_offline / pi_plan_offline
          calls,          \* how many Solver methods the caller has called
          vi_result,      \* the dictionaries vi_plan_offline left
          last_rhs        \* the numbers the last evaluation sweep computed, per entry

vars == <<env, transitions, pc, q_state, q_action, outcomes, state_values, policy, keys,
          policy_stable, state_list, value_array, policy_array, tcache,
          stack, explored, max_states, warned, iterations, calls, vi_result, last_rhs>>

queryVars == <<q_state, q_action, outcomes>>
dictVars == <<state_values, policy, keys>>
arrayVars == <<state_list, value_array, policy_array, tcache>>
exploreVars == <<stack, explored, max_states, warned>>

\* the dictionaries as one value
Dicts == [values |-> state_values, policy |-> policy, keys |-> keys]

SetDicts(d) ==
    /\ state_values' = d.values
    /\ policy' = d.policy
    /\ keys' = d.keys

SetArrays(a) ==
    /\ state_list' = a.state_list
    /\ value_array' = a.value_array
    /\ policy_array' = a.policy_array

\* pi_initialise: vi_initialise, then the arrays
SetInitialised(d) ==
    /\ SetDicts(d)
    /\ SetArrays(pi_arrays(d))

\* Solver.__init__: empty tables, policy_stable False
SolverInit ==
    /\ state_values = <<>>
    /\ policy = <<>>
    /\ keys = <<>>
    /\ policy_stable = FALSE
    /\ state_list = <<>>
    /\ value_array = <<>>
    /\ policy_array = <<>>
    /\ tcache = <<>>
    /\ stack = <<>>
    /\ explored = {}
    /\ max_states = 0
    /\ warned = FALSE
    /\ iterations = 0
    /\ calls = 0
    /\ vi_result = <<>>
    /\ last_rhs = <<>>

NoQuery ==
    /\ q_state = [pos |-> 0, ori |-> 0]
    /\ q_action = FORWARD
    /\ outcomes = <<>>

(***************************************************************************)
(* The transition model on its own: any state, any action.                 *)
(***************************************************************************)
InitT ==
    /\ env \in TransitionEnvs
    /\ transitions = <<>>
    /\ pc = "query"
    /\ NoQuery
    /\ SolverInit

Query ==
    /\ pc = "query"
    /\ \E state \in States, action \in Actions :
          /\ state.pos < env.width
          /\ q_state' = state
          /\ q_action' = action
          /\ outcomes' = get_transition_outcomes(env, state, action)
    /\ pc' = "answered"
    /\ UNCHANGED <<env, transitions, dictVars, policy_stable, arrayVars, exploreVars,
                   iterations, calls, vi_result, last_rhs>>

NextT == Query

SpecT == InitT /\ [][NextT]_vars

(***************************************************************************)
(* The explorer on its own, one pass of its loop at a time, with a cap     *)
(* the caller chooses.                                                     *)
(***************************************************************************)
MaxCap == 8

ExploreState == [d |-> Dicts, stack |-> stack, explored |-> explored]

SetExploreState(x) ==
    /\ SetDicts(x.d)
    /\ stack' = x.stack
    /\ explored' = x.explored

InitE ==
    /\ env \in PlanEnvs
    /\ transitions = TransitionTable(env)
    /\ pc = "exploring"
    /\ NoQuery
    /\ max_states \in 1..MaxCap
    /\ state_values = SeedDicts(get_init_state(env)).values
    /\ policy = SeedDicts(get_init_state(env)).policy
    /\ keys = SeedDicts(get_init_state(env)).keys
    /\ stack = <<get_init_state(env)>>
    /\ explored = {}
    /\ warned = FALSE
    /\ policy_stable = FALSE
    /\ state_list = <<>> /\ value_array = <<>> /\ policy_array = <<>> /\ tcache = <<>>
    /\ iterations = 0 /\ calls = 0 /\ vi_result = <<>> /\ last_rhs = <<>>

ExploreStep ==
    /\ pc = "exploring"
    /\ ExploreGoesOn(ExploreState, max_states)
    /\ SetExploreState(ExploreBody(env, ExploreState))
    /\ UNCHANGED <<env, transitions, pc, queryVars, policy_stable, arrayVars, max_states, warned,
                   iterations, calls, vi_result, last_rhs>>

\* the loop is left: the warning is printed if the cap was reached
ExploreReturn ==
    /\ pc = "exploring"
    /\ ~ExploreGoesOn(ExploreState, max_states)
    /\ warned' = (Len(keys) >= max_states)
    /\ pc' = "explored"
    /\ UNCHANGED <<env, transitions, queryVars, dictVars, policy_stable, arrayVars, stack, explored,
                   max_states, iterations, calls, vi_result, last_rhs>>

NextE == ExploreStep \/ ExploreReturn

SpecE == InitE /\ [][NextE]_vars

(***************************************************************************)
(* A caller of the Solver's methods, in any order.                         *)
(***************************************************************************)
MaxCalls == 4

InitApi ==
    /\ env \in PlanEnvs
    /\ transitions = TransitionTable(env)
    /\ pc = "api"
    /\ NoQuery
    /\ SolverInit

ViInitialise ==
    /\ pc = "api" /\ calls < MaxCalls
    /\ SetDicts(vi_initialise(env))
    /\ calls' = calls + 1
    /\ UNCHANGED <<env, transitions, pc, queryVars, policy_stable, arrayVars, exploreVars,
                   iterations, vi_result, last_rhs>>

PiInitialise ==
    /\ pc = "api" /\ calls < MaxCalls
    /\ SetInitialised(vi_initialise(env))
    /\ last_rhs' = <<>>
    /\ calls' = calls + 1
    /\ UNCHANGED <<env, transitions, pc, queryVars, policy_stable, tcache, exploreVars,
                   iterations, vi_result>>

ViIteration ==
    /\ pc = "api" /\ calls < MaxCalls
    /\ keys # <<>>
    /\ SetDicts(vi_iteration(env, Dicts))
    /\ calls' = calls + 1
    /\ UNCHANGED <<env, transitions, pc, queryVars, policy_stable, arrayVars, exploreVars,
                   iterations, vi_result, last_rhs>>

\* pi_iteration, statement by statement: two evaluations, the improvement whose
\* result is the flag, then the arrays copied into the dictionaries
pi_iteration ==
    /\ tcache' = Matrices(tcache, env, state_list)
    /\ \E v \in {pi_policy_evaluation(tcache', env.gamma, env.epsilon, policy_array,
                                      Held(value_array))} :
          \E w \in {pi_policy_evaluation(tcache', env.gamma, env.epsilon, policy_array, v)} :
              /\ value_array' = w.value
              /\ last_rhs' = w.rhs
    /\ policy_array' = pi_policy_improvement(tcache', env.gamma, value_array', policy_array)
    /\ policy_stable' = (policy_array' = policy_array)
    /\ SetDicts(SyncDicts(state_list, Dicts, value_array', policy_array'))
    /\ UNCHANGED state_list

PiIteration ==
    /\ pc = "api" /\ calls < MaxCalls
    /\ state_list # <<>>
    /\ pi_iteration
    /\ calls' = calls + 1
    /\ UNCHANGED <<env, transitions, pc, queryVars, exploreVars, iterations, vi_result>>

NextApi == ViInitialise \/ PiInitialise \/ ViIteration \/ PiIteration

SpecApi == InitApi /\ [][NextApi]_vars

(***************************************************************************)
(* vi_plan_offline, then pi_plan_offline, on the same environment.         *)
(***************************************************************************)
ViMaxIterations == 1000
PiMaxIterations == 100

InitPlan ==
    /\ env \in PlanEnvs
    /\ transitions = TransitionTable(env)
    /\ pc = "start"
    /\ NoQuery
    /\ SolverInit

ViPlanStart ==
    /\ pc = "start"
    /\ SetDicts(vi_initialise(env))
    /\ iterations' = 0
    /\ pc' = "vi_loop"
    /\ UNCHANGED <<env, transitions, queryVars, policy_stable, arrayVars, exploreVars, calls,
                   vi_result, last_rhs>>

\* the loop condition of vi_plan_offline
ViPlanGoesOn == ~vi_is_converged(env, Dicts) /\ iterations < ViMaxIterations

ViPlanStep ==
    /\ pc = "vi_loop"
    /\ ViPlanGoesOn
    /\ SetDicts(vi_iteration(env, Dicts))
    /\ iterations' = iterations + 1
    /\ UNCHANGED <<env, transitions, pc, queryVars, policy_stable, arrayVars, exploreVars, calls,
                   vi_result, last_rhs>>

ViPlanReturn ==
    /\ pc = "vi_loop"
    /\ ~ViPlanGoesOn
    /\ vi_result' = Dicts
    /\ pc' = "vi_done"
    /\ UNCHANGED <<env, transitions, queryVars, dictVars, policy_stable, arrayVars, exploreVars,
                   iterations, calls, last_rhs>>

PiPlanStart ==
    /\ pc = "vi_done"
    /\ SetInitialised(vi_initialise(env))
    /\ iterations' = 0
    /\ pc' = "pi_loop"
    /\ UNCHANGED <<env, transitions, queryVars, policy_stable, tcache, exploreVars, calls,
                   vi_result, last_rhs>>

\* what `if self.pi_iteration():` tests: pi_iteration has no return statement,
\* so the call's value is None, whatever policy_stable has become
PiIterationResult == FALSE

\* `if self.pi_iteration(): break`, else iterations += 1
PiPlanBody ==
    /\ pi_iteration
    /\ IF PiIterationResult
       THEN pc' = "pi_done" /\ iterations' = iterations
       ELSE pc' = "pi_loop" /\ iterations' = iterations + 1

PiPlanStep ==
    /\ pc = "pi_loop"
    /\ iterations < PiMaxIterations
    /\ PiPlanBody
    /\ UNCHANGED <<env, transitions, queryVars, exploreVars, calls, vi_result>>

PiPlanReturn ==
    /\ pc = "pi_loop"
    /\ ~(iterations < PiMaxIterations)
    /\ pc' = "pi_done"
    /\ UNCHANGED <<env, transitions, queryVars, dictVars, policy_stable, arrayVars, exploreVars,
                   iterations, calls, vi_result, last_rhs>>

NextPlan == ViPlanStart \/ ViPlanStep \/ ViPlanReturn
            \/ PiPlanStart \/ PiPlanStep \/ PiPlanReturn

SpecPlan == InitPlan /\ [][NextPlan]_vars

(***************************************************************************)
(* Properties.                                                             *)
(***************************************************************************)
\* the probabilities of the outcomes a query returned
Probs == [k \in 1..Len(outcomes) |-> outcomes[k].prob]

RECURSIVE ExactSumFrom(_, _, _)
\* the sum of terms[i..] and acc as real numbers, nothing rounded
ExactSumFrom(acc, terms, i) ==
    IF i > Len(terms) THEN acc ELSE ExactSumFrom(ExactAdd(acc, terms[i]), terms, i + 1)

\* sum(p) - 1, exactly
SumError(p) == ExactAdd(ExactSumFrom(FZero, p, 1), FromInt(-1))

InUnitInterval(x) == FLeq(FZero, x) /\ FLeq(x, FromInt(1))

Answered == pc = "answered"

\* the query's action both drifts and doubles with probabilities binary64 cannot hold
InexactQuery ==
    /\ env.drift_cw_probs[q_action] = Dot05
    /\ env.drift_ccw_probs[q_action] = Dot1
    /\ env.double_move_probs[q_action] = Dot7

\* C3 as stated: the probabilities of the outcomes get_transition_outcomes returns
\* are each in [0, 1] and sum to exactly 1 -- read generously, either as real
\* numbers or as Python's sum() adds them in binary64.
C3_SumExactlyOne ==
    Answered =>
        /\ \A k \in 1..Len(outcomes) : InUnitInterval(outcomes[k].prob)
        /\ \/ SumError(Probs).m = <<>>
           \/ FCmp(SumFrom(FZero, Probs, 1), FromInt(1)) = 0

\* C3 amended: with drift_cw, drift_ccw, double_move in [0, 1] and
\* drift_cw + drift_ccw <= 1, the probabilities of the outcomes
\* get_transition_outcomes returns are each in [0, 1] and their sum is within
\* 2^-30 (less than 1e-9) of 1.
C3_SumWithinTolerance ==
    Answered =>
        /\ \A k \in 1..Len(outcomes) : InUnitInterval(outcomes[k].prob)
        /\ FLess(FAbs(SumError(Probs)), Dyadic(1, 30))

\* a non-terminal query with inexact probabilities whose six outcomes do not add up to 1
C3_Witness ==
    /\ Answered
    /\ ~is_solved(env, q_state)
    /\ InexactQuery
    /\ Len(outcomes) = 6
    /\ SumError(Probs).m # <<>>

\* C6 as stated: for a non-terminal state and an action with a clockwise drift
\* probability that is not 0 and a counter-clockwise one that is 0,
\* get_transition_outcomes returns exactly 4 outcomes.
C6_FourOutcomes ==
    (/\ Answered
     /\ ~is_solved(env, q_state)
     /\ env.drift_cw_probs[q_action] # FZero
     /\ env.drift_ccw_probs[q_action] = FZero)
    => Len(outcomes) = 4

RECURSIVE ApplyAll(_, _, _)
\* the state the whole movement sequence leads to, no step skipped
ApplyAll(e, state, moves) ==
    IF moves = <<>> THEN state
    ELSE ApplyAll(e, apply_dynamics(e, state, Head(moves)).next_state, Tail(moves))

\* the movement sequence behind outcome k of a query
MovesOf(k) ==
    Movements(DriftBranches(env, q_action)[(k + 1) \div 2].drift, q_action, k % 2 = 0)

\* C10 as stated: the next_state of every outcome (of those that can happen, at
\* least) is the state the whole movement sequence ([drift,] action [, action])
\* leads to under apply_dynamics, whether or not the sequence was cut short.
C10_AbsorptionChangesNothing ==
    (Answered /\ ~is_solved(env, q_state)) =>
        \A k \in 1..Len(outcomes) :
            outcomes[k].prob # FZero =>
                outcomes[k].next_state = ApplyAll(env, q_state, MovesOf(k))

\* the number of states reachable from the initial state
Reachable == Len(vi_initialise(env).keys)

\* C2 as stated: with a cap smaller than the number of reachable states, the
\* number of keys of state_values never exceeds the cap, and when the explorer
\* returns it has reported the overflow and knows exactly cap states.
C2_StopsAtCap ==
    (pc \in {"exploring", "explored"} /\ max_states < Reachable) =>
        /\ Len(keys) <= max_states
        /\ pc = "explored" => (warned /\ Len(keys) = max_states)

\* C4: after vi_initialise or pi_initialise and any calls of vi_iteration and
\* pi_iteration, every solved state that is a key of state_values maps to exactly 0.
C4_TerminalZero ==
    \A state \in DOMAIN state_values :
        is_solved(env, state) => state_values[state] = FZero

\* pi_iteration has run since pi_initialise, vi_iteration after it: a solved
\* state is known, and some value is no longer an integer
C4_Witness ==
    /\ pc = "api"
    /\ last_rhs # <<>>
    /\ \E state \in DOMAIN state_values : is_solved(env, state)
    /\ \E state \in DOMAIN state_values : state_values[state].e < 0

\* C7 as stated: where vi_is_converged() holds, one more vi_iteration changes
\* no state's value by epsilon or more and no state's policy action.
C7_Idempotent ==
    [][(ViIteration /\ vi_is_converged(env, Dicts)) =>
          /\ \A state \in DOMAIN state_values :
                FLess(FAbs(FSub(state_values'[state], state_values[state])), env.epsilon)
          /\ policy' = policy]_vars

\* C8 as stated: after pi_policy_evaluation, every entry of value_array equals
\* the number R[i] + gamma * (T[i] @ value) last computed for it, fraction included.
C8_StoresLookahead ==
    last_rhs # <<>> =>
        \A i \in 1..Len(value_array) : FromInt(value_array[i]) = last_rhs[i]

\* Q = R + gamma * (T @ value_array) for the action with index a, at state i
QOf(a, i) == Lookahead(tcache[BEE_ACTIONS[a + 1]], env.gamma, value_array, i)

Improving(a, i) == FLess(FromInt(value_array[i]), QOf(a, i))

\* C9 as stated: after pi_policy_improvement, every state with an improving
\* action (Q above the stored value) is assigned an improving action whose Q is
\* greatest among the improving actions.
C9_Greedy ==
    last_rhs # <<>> =>
        \A i \in 1..Len(policy_array) :
            (\E a \in 0..(Len(BEE_ACTIONS) - 1) : Improving(a, i)) =>
                /\ Improving(policy_array[i], i)
                /\ \A b \in 0..(Len(BEE_ACTIONS) - 1) :
                      Improving(b, i) => FLeq(QOf(b, i), QOf(policy_array[i], i))

\* C1 as stated: once a pi_iteration has raised policy_stable, pi_plan_offline
\* executes no further pi_iteration: its next step leaves the loop.
C1_StopsWhenStable ==
    [][(pc = "pi_loop" /\ policy_stable) => pc' = "pi_done"]_vars

\* C5 as stated: the policy pi_plan_offline leaves assigns every explored
\* non-terminal state the action the policy vi_plan_offline left assigns it.
C5_SamePolicy ==
    pc = "pi_done" =>
        \A state \in DOMAIN policy :
            ~is_solved(env, state) => policy[state] = vi_result.policy[state]
====
